---- MODULE Spec2Model ----
(***************************************************************************)
(* Model of apps/src/lib/node/ledger/shell/process_proposal.rs: the Shell's *)
(* VerifyHeader, ProcessProposal and RevertProposal ABCI++ methods.         *)
(*                                                                          *)
(* The shell's storage (tx_queue, balances, the wrapper fee parameter) is   *)
(* the committed state.  A ProcessProposal request carries a list of        *)
(* transactions; process_txs threads one iterator over storage.tx_queue     *)
(* through process_single_tx, and process_proposal folds the results into   *)
(* Accept / Reject.                                                         *)
(***************************************************************************)
EXTENDS Naturals, Sequences, FiniteSets

(* ------------------------------ bounds --------------------------------- *)

\* Longest proposal (number of txs in one RequestProcessProposal).
MaxTxs == 3

\* Longest tx_queue; inner txs are named 1..MaxQueue by their header hash.
MaxQueue == 3

\* Largest token amount (balances, fees).
MaxAmount == 1

(* --------------------------- ErrorCodes -------------------------------- *)

Ok == 0

InvalidTx == 1

InvalidSig == 2

WasmRuntimeError == 3

InvalidOrder == 4

ExtraTxs == 5

(* --------------------------- info strings ------------------------------ *)

InfoNotDeserializable == "The submitted transaction was not deserializable"

\* The text of the error validate_header returns for a wrapper whose
\* signature does not verify (asserted by the tests).
InfoWrapperSigError == "WrapperTx signature verification failed: Transaction doesn't have any data with a signature."

\* The source shows no text for a header error of another variant.
InfoHeaderError == "header validation failed"

InfoRaw == "Transaction rejected: Non-encrypted transactions are not supported"

InfoProtocol == "Protocol transactions are a fun new feature that is coming soon to a blockchain near you. Patience."

InfoInvalidOrder == "Process proposal rejected a decrypted transaction that violated the tx order determined in the previous block"

InfoDecryptedOk == "Process Proposal accepted this transaction"

InfoMismarked == "The encrypted payload of tx was incorrectly marked as un-decryptable"

InfoExtraTxs == "Received more decrypted txs than expected"

\* format!("The ciphertext of the wrapped tx {} is invalid", hash): the pieces
\* of the formatted String, in order.
InfoBadCiphertext(hash) ==
    <<"The ciphertext of the wrapped tx ", hash, " is invalid">>

InfoWrapperOk == "Process proposal accepted this transaction"

InfoInsufficient == "The address given does not have sufficient balance to pay fee"

\* "...".into(): the String made of one literal; a String is the sequence
\* of the pieces it is put together from.
into(literal) == <<literal>>

TxResult(code, info) == [code |-> code, info |-> info]

(* --------------------- keys, addresses, tokens ------------------------- *)

\* The reserved MASP sentinel transaction key, and an ordinary key.
masp_tx_key == "masp_tx_key"

Keys == {masp_tx_key, "key1"}

\* The fixed shielded-pool address.
masp == "masp"

\* Address::from(&pk): the implicit address of a public key.
AddressFrom(pk) ==
    IF pk = masp_tx_key THEN "implicit(masp_tx_key)" ELSE "implicit(key1)"

Addresses == {masp} \cup {AddressFrom(pk) : pk \in Keys}

NativeToken == "NAM"

Tokens == {NativeToken, "BTC"}

Amounts == 0..MaxAmount

(* --------------------------- transactions ------------------------------ *)

Hashes == 1..MaxQueue

\* The bytes of one tx of a request, described by what decoding them gives:
\*   decodes      Tx::try_from(tx_bytes) is Ok
\*   header_ok    tx.validate_header() is Ok
\*   header       the TxType variant of tx.header()
\*   tag          DecryptedTx::Decrypted or DecryptedTx::Undecryptable
\*   commitment   DecryptedTx::hash_commitment()
\*   cipher_ok    tx.validate_ciphertext()
\*   pk, fee_token, fee_amount   WrapperTx.pk, WrapperTx.fee
\*   pow          the wrapper carries a PoW solution the storage accepts
MkTx(decodes, header_ok, header, tag, commitment, cipher_ok, pk, tok, amt, pow) ==
    [decodes |-> decodes, header_ok |-> header_ok, header |-> header,
     tag |-> tag, commitment |-> commitment, cipher_ok |-> cipher_ok,
     pk |-> pk, fee_token |-> tok, fee_amount |-> amt, pow |-> pow]

GarbageTx ==
    MkTx(FALSE, FALSE, "None", "None", 0, FALSE, "key1", NativeToken, 0, FALSE)

RawTx(header_ok) ==
    MkTx(TRUE, header_ok, "Raw", "None", 0, FALSE, "key1", NativeToken, 0, FALSE)

ProtocolTx(header_ok) ==
    MkTx(TRUE, header_ok, "Protocol", "None", 0, FALSE, "key1", NativeToken, 0, FALSE)

DecryptedTx(header_ok, tag, commitment) ==
    MkTx(TRUE, header_ok, "Decrypted", tag, commitment, FALSE, "key1",
         NativeToken, 0, FALSE)

WrapperTx(header_ok, cipher_ok, pk, tok, amt, pow) ==
    MkTx(TRUE, header_ok, "Wrapper", "None", 0, cipher_ok, pk, tok, amt, pow)

DecryptedTags == {"Decrypted", "Undecryptable"}

\* Every wrapper the model feeds to process_single_tx.
WrapperTxs ==
    {WrapperTx(h, c, pk, tok, amt, pow) :
        h \in BOOLEAN, c \in BOOLEAN, pk \in Keys, tok \in Tokens,
        amt \in Amounts, pow \in BOOLEAN}

\* Every decrypted tx the model feeds to process_single_tx.
DecryptedTxs ==
    {DecryptedTx(h, tag, c) : h \in BOOLEAN, tag \in DecryptedTags, c \in Hashes}

\* The txs that multi-tx proposals are built from: every class of tx, every
\* decrypted tx that reaches the order check, one wrapper per outcome class.
OrderTxs ==
    {GarbageTx, RawTx(TRUE), ProtocolTx(TRUE),
     WrapperTx(TRUE, TRUE, "key1", NativeToken, MaxAmount, FALSE),
     WrapperTx(FALSE, TRUE, "key1", NativeToken, MaxAmount, FALSE),
     DecryptedTx(FALSE, "Decrypted", 1)}
    \cup {DecryptedTx(TRUE, tag, c) : tag \in DecryptedTags, c \in Hashes}

\* The txs of single-tx requests.
SingleTxs ==
    {GarbageTx} \cup {RawTx(h) : h \in BOOLEAN} \cup {ProtocolTx(h) : h \in BOOLEAN}
    \cup DecryptedTxs \cup WrapperTxs

RECURSIVE SeqsUpTo(_, _)
SeqsUpTo(S, n) ==
    IF n = 0 THEN {<<>>}
    ELSE LET shorter == SeqsUpTo(S, n - 1)
         IN shorter \cup {Append(s, x) : s \in {t \in shorter : Len(t) = n - 1}, x \in S}

Proposals == SeqsUpTo(OrderTxs, MaxTxs)

\* The txs of back-to-back calls.
CallTxs == {RawTx(TRUE)} \cup {DecryptedTx(TRUE, "Decrypted", c) : c \in Hashes}

ShortProposals == SeqsUpTo(CallTxs, MaxTxs - 2)

\* The txs of the header-check proposals: bytes that do not decode, one tx of
\* every variant whose validate_header fails, and decrypted txs that pass it.
HeaderTxs ==
    {GarbageTx, RawTx(FALSE), ProtocolTx(FALSE),
     WrapperTx(FALSE, TRUE, "key1", NativeToken, MaxAmount, FALSE)}
    \cup {DecryptedTx(h, "Decrypted", c) : h \in BOOLEAN, c \in Hashes}

HeaderProposals == SeqsUpTo(HeaderTxs, MaxTxs - 1)

SingleProposals == {<<tx>> : tx \in SingleTxs}

(* ------------------------------ state ---------------------------------- *)

VARIABLES
    tx_queue,        \* storage.tx_queue: Seq of TxInQueue
    balances,        \* storage: [Tokens \X Addresses -> amount]
    wrapper_tx_fees, \* storage parameter read by get_wrapper_tx_fees
    mainnet,         \* the build's "mainnet" feature
    txs,             \* req.txs of the last process_proposal call
    tx_results,      \* ProcessProposal.tx_results of that call
    status,          \* ProcessProposal.status: "Accept" / "Reject" ("None": no call)
    steps,           \* per tx of that call: tx_queue_iter after it, entry it got
    prev,            \* the call before that one
    hook             \* last verify_header / revert_proposal call and its response

vars == <<tx_queue, balances, wrapper_tx_fees, mainnet, txs, tx_results,
          status, steps, prev, hook>>

storage == <<tx_queue, balances, wrapper_tx_fees, mainnet>>

\* TxInQueue { tx: wrapper, inner_tx, has_valid_pow }: the inner tx is named
\* by its header hash.
TxInQueue(h) == [inner_tx |-> h]

header_hash(inner_tx) == inner_tx

hash_commitment(tx) == tx.commitment

\* Inner txs whose payload does not decrypt.
Undecryptable(inner_tx) == inner_tx = 2

(* ------------------------- collaborators ------------------------------- *)

\* verify_decrypted_correctly(&tx, inner_tx, privkey): the decryption oracle
\* agrees with the tag of the decrypted tx.
verify_decrypted_correctly(tx, inner_tx) ==
    (tx.tag = "Undecryptable") = Undecryptable(inner_tx)

get_balance(token, owner) == balances[<<token, owner>>]

get_wrapper_tx_fees == wrapper_tx_fees

has_valid_pow_solution(wtx) == wtx.pow

fee_payer(wtx) == AddressFrom(wtx.pk)

validate_header(tx) == tx.header_ok

\* The Err of validate_header: the variant whose header failed to validate.
validate_header_err(tx) == tx.header

\* err.to_string(): the tests fix the text for a wrapper; the text of the
\* other variants is kept apart by variant.
to_string(err) ==
    IF err = "Wrapper" THEN into(InfoWrapperSigError) ELSE <<err, InfoHeaderError>>

\* hash_tx(tx_bytes): the digest of the wire bytes of the tx, which differs
\* whenever the txs differ.
hash_tx(tx) ==
    <<tx.header, tx.header_ok, tx.tag, tx.commitment, tx.cipher_ok,
      tx.pk, tx.fee_token, tx.fee_amount, tx.pow>>

validate_ciphertext(tx) == tx.cipher_ok

(* ------------------------- process_single_tx --------------------------- *)

\* Mutant of iter_next: the entry is read but not consumed.
iter_next_peek(it) ==
    IF it < Len(tx_queue)
    THEN [some |-> TRUE, item |-> tx_queue[it + 1], index |-> it + 1, iter |-> it]
    ELSE [some |-> FALSE, item |-> TxInQueue(0), index |-> 0, iter |-> it]

\* Mutant of iter_next: an exhausted iterator starts over (cycle()).
iter_next_cycle(it) ==
    IF Len(tx_queue) > 0
    THEN [some |-> TRUE, item |-> tx_queue[(it % Len(tx_queue)) + 1],
          index |-> (it % Len(tx_queue)) + 1, iter |-> it + 1]
    ELSE [some |-> FALSE, item |-> TxInQueue(0), index |-> 0, iter |-> it]

\* tx_queue_iter.next() on storage.tx_queue.iter() with `it` entries consumed.
iter_next(it) ==
    IF it < Len(tx_queue)
    THEN [some |-> TRUE, item |-> tx_queue[it + 1], index |-> it + 1, iter |-> it + 1]
    ELSE [some |-> FALSE, item |-> TxInQueue(0), index |-> 0, iter |-> it]

\* What one call of process_single_tx leaves: the TxResult, the iterator,
\* and the index of the queue entry the iterator gave it (0: none).
Outcome(result, it, matched) == [result |-> result, iter |-> it, matched |-> matched]

\* Mutant of decrypted_arm: an entry that does not match is left in the queue.
decrypted_arm_peek(tx, it) ==
    LET n == iter_next(it) IN
    IF n.some
    THEN IF header_hash(n.item.inner_tx) # hash_commitment(tx)
         THEN Outcome(TxResult(InvalidOrder, into(InfoInvalidOrder)), it, n.index)
         ELSE IF verify_decrypted_correctly(tx, n.item.inner_tx)
         THEN Outcome(TxResult(Ok, into(InfoDecryptedOk)), n.iter, n.index)
         ELSE Outcome(TxResult(InvalidTx, into(InfoMismarked)), n.iter, n.index)
    ELSE Outcome(TxResult(ExtraTxs, into(InfoExtraTxs)), n.iter, n.index)

\* Mutant of decrypted_arm: a matching hash is enough, the tag is not verified.
decrypted_arm_no_verify(tx, it) ==
    LET n == iter_next(it) IN
    IF n.some
    THEN IF header_hash(n.item.inner_tx) # hash_commitment(tx)
         THEN Outcome(TxResult(InvalidOrder, into(InfoInvalidOrder)), n.iter, n.index)
         ELSE Outcome(TxResult(Ok, into(InfoDecryptedOk)), n.iter, n.index)
    ELSE Outcome(TxResult(ExtraTxs, into(InfoExtraTxs)), n.iter, n.index)

\* Mutant of decrypted_arm: a tx tagged Undecryptable is never accepted.
decrypted_arm_rejects_undecryptable(tx, it) ==
    LET n == iter_next(it) IN
    IF n.some
    THEN IF header_hash(n.item.inner_tx) # hash_commitment(tx)
         THEN Outcome(TxResult(InvalidOrder, into(InfoInvalidOrder)), n.iter, n.index)
         ELSE IF verify_decrypted_correctly(tx, n.item.inner_tx) /\ tx.tag # "Undecryptable"
         THEN Outcome(TxResult(Ok, into(InfoDecryptedOk)), n.iter, n.index)
         ELSE Outcome(TxResult(InvalidTx, into(InfoMismarked)), n.iter, n.index)
    ELSE Outcome(TxResult(ExtraTxs, into(InfoExtraTxs)), n.iter, n.index)

\* The TxType::Decrypted arm.
decrypted_arm(tx, it) ==
    LET n == iter_next(it) IN
    IF n.some
    THEN IF header_hash(n.item.inner_tx) # hash_commitment(tx)
         THEN Outcome(TxResult(InvalidOrder, into(InfoInvalidOrder)), n.iter, n.index)
         ELSE IF verify_decrypted_correctly(tx, n.item.inner_tx)
         THEN Outcome(TxResult(Ok, into(InfoDecryptedOk)), n.iter, n.index)
         ELSE Outcome(TxResult(InvalidTx, into(InfoMismarked)), n.iter, n.index)
    ELSE Outcome(TxResult(ExtraTxs, into(InfoExtraTxs)), n.iter, n.index)

\* The fee payer of a wrapper: the MASP for the sentinel key.
\* Mutant of wrapper_fee_payer: the payer is always derived from the key.
wrapper_fee_payer_derived(wtx) == fee_payer(wtx)

wrapper_fee_payer(wtx) ==
    IF wtx.pk # masp_tx_key THEN fee_payer(wtx) ELSE masp

\* Mutant of has_valid_pow: a solution is never honoured.
has_valid_pow_never(wtx) == FALSE

\* has_valid_pow under the build's feature.
has_valid_pow(wtx) ==
    IF mainnet THEN FALSE ELSE has_valid_pow_solution(wtx)

\* Mutant of fee_check: a balance equal to the fee is not enough.
fee_check_strict(wtx) ==
    LET balance == get_balance(wtx.fee_token, wrapper_fee_payer(wtx)) IN
    has_valid_pow(wtx) \/ get_wrapper_tx_fees < balance

\* Mutant of fee_check: the balance is compared with the wrapper's own fee.
fee_check_declared(wtx) ==
    LET balance == get_balance(wtx.fee_token, wrapper_fee_payer(wtx)) IN
    has_valid_pow(wtx) \/ wtx.fee_amount <= balance

\* The fee check of the TxType::Wrapper arm.
fee_check(wtx) ==
    LET balance == get_balance(wtx.fee_token, wrapper_fee_payer(wtx)) IN
    has_valid_pow(wtx) \/ get_wrapper_tx_fees <= balance

\* Mutant of wrapper_arm: the fee check is decided before the ciphertext.
wrapper_arm_fee_first(tx) ==
    IF fee_check(tx)
    THEN TxResult(Ok, into(InfoWrapperOk))
    ELSE IF ~validate_ciphertext(tx)
    THEN TxResult(InvalidTx, InfoBadCiphertext(hash_tx(tx)))
    ELSE TxResult(InvalidTx, into(InfoInsufficient))

\* The TxType::Wrapper arm.
wrapper_arm(tx) ==
    IF ~validate_ciphertext(tx)
    THEN TxResult(InvalidTx, InfoBadCiphertext(hash_tx(tx)))
    ELSE IF fee_check(tx)
    THEN TxResult(Ok, into(InfoWrapperOk))
    ELSE TxResult(InvalidTx, into(InfoInsufficient))

\* Mutant of process_single_tx: next() is taken before the variant is matched.
process_single_tx_eager(tx, it) ==
    IF ~tx.decodes
    THEN Outcome(TxResult(InvalidTx, into(InfoNotDeserializable)), it, 0)
    ELSE IF ~validate_header(tx)
    THEN Outcome(TxResult(InvalidSig, to_string(validate_header_err(tx))), it, 0)
    ELSE CASE tx.header = "Raw" ->
                Outcome(TxResult(InvalidTx, into(InfoRaw)), iter_next(it).iter, 0)
           [] tx.header = "Protocol" ->
                Outcome(TxResult(InvalidTx, into(InfoProtocol)), iter_next(it).iter, 0)
           [] tx.header = "Decrypted" -> decrypted_arm(tx, it)
           [] tx.header = "Wrapper" -> Outcome(wrapper_arm(tx), iter_next(it).iter, 0)

\* Mutant of process_single_tx: a raw tx is let through.
process_single_tx_raw_ok(tx, it) ==
    IF ~tx.decodes
    THEN Outcome(TxResult(InvalidTx, into(InfoNotDeserializable)), it, 0)
    ELSE IF ~validate_header(tx)
    THEN Outcome(TxResult(InvalidSig, to_string(validate_header_err(tx))), it, 0)
    ELSE CASE tx.header = "Raw" -> Outcome(TxResult(Ok, into(InfoWrapperOk)), it, 0)
           [] tx.header = "Protocol" -> Outcome(TxResult(InvalidTx, into(InfoProtocol)), it, 0)
           [] tx.header = "Decrypted" -> decrypted_arm(tx, it)
           [] tx.header = "Wrapper" -> Outcome(wrapper_arm(tx), it, 0)

\* Mutant of process_single_tx: validate_header is not called.
process_single_tx_no_header_check(tx, it) ==
    IF ~tx.decodes
    THEN Outcome(TxResult(InvalidTx, into(InfoNotDeserializable)), it, 0)
    ELSE CASE tx.header = "Raw" -> Outcome(TxResult(InvalidTx, into(InfoRaw)), it, 0)
           [] tx.header = "Protocol" -> Outcome(TxResult(InvalidTx, into(InfoProtocol)), it, 0)
           [] tx.header = "Decrypted" -> decrypted_arm(tx, it)
           [] tx.header = "Wrapper" -> Outcome(wrapper_arm(tx), it, 0)

\* Mutant of process_single_tx: a protocol tx is reported as a wasm failure.
process_single_tx_wasm_error(tx, it) ==
    IF ~tx.decodes
    THEN Outcome(TxResult(InvalidTx, into(InfoNotDeserializable)), it, 0)
    ELSE IF ~validate_header(tx)
    THEN Outcome(TxResult(InvalidSig, to_string(validate_header_err(tx))), it, 0)
    ELSE CASE tx.header = "Raw" -> Outcome(TxResult(InvalidTx, into(InfoRaw)), it, 0)
           [] tx.header = "Protocol" -> Outcome(TxResult(WasmRuntimeError, into(InfoProtocol)), it, 0)
           [] tx.header = "Decrypted" -> decrypted_arm(tx, it)
           [] tx.header = "Wrapper" -> Outcome(wrapper_arm(tx), it, 0)

\* Mutant of process_single_tx: a decrypted tx takes its queue entry before
\* its header is validated.
process_single_tx_late_header(tx, it) ==
    IF ~tx.decodes
    THEN Outcome(TxResult(InvalidTx, into(InfoNotDeserializable)), it, 0)
    ELSE IF ~validate_header(tx)
    THEN Outcome(TxResult(InvalidSig, to_string(validate_header_err(tx))),
                 IF tx.header = "Decrypted" THEN iter_next(it).iter ELSE it, 0)
    ELSE CASE tx.header = "Raw" -> Outcome(TxResult(InvalidTx, into(InfoRaw)), it, 0)
           [] tx.header = "Protocol" -> Outcome(TxResult(InvalidTx, into(InfoProtocol)), it, 0)
           [] tx.header = "Decrypted" -> decrypted_arm(tx, it)
           [] tx.header = "Wrapper" -> Outcome(wrapper_arm(tx), it, 0)

process_single_tx(tx, it) ==
    IF ~tx.decodes
    THEN Outcome(TxResult(InvalidTx, into(InfoNotDeserializable)), it, 0)
    ELSE IF ~validate_header(tx)
    THEN Outcome(TxResult(InvalidSig, to_string(validate_header_err(tx))), it, 0)
    ELSE CASE tx.header = "Raw" -> Outcome(TxResult(InvalidTx, into(InfoRaw)), it, 0)
           [] tx.header = "Protocol" -> Outcome(TxResult(InvalidTx, into(InfoProtocol)), it, 0)
           [] tx.header = "Decrypted" -> decrypted_arm(tx, it)
           [] tx.header = "Wrapper" -> Outcome(wrapper_arm(tx), it, 0)

(* ----------------------------- process_txs ----------------------------- *)

\* txs.iter().map(|tx_bytes| process_single_tx(tx_bytes, &mut tx_queue_iter)):
\* one Outcome per tx, the iterator threaded through them in order.
RECURSIVE map_txs(_, _)
map_txs(req_txs, it) ==
    IF req_txs = <<>> THEN <<>>
    ELSE LET o == process_single_tx(Head(req_txs), it)
         IN <<o>> \o map_txs(Tail(req_txs), o.iter)

\* Mutant of process_txs_outcomes: the iterator is kept from call to call.
process_txs_outcomes_resume(req_txs) ==
    map_txs(req_txs, IF steps = <<>> THEN 0 ELSE steps[Len(steps)].iter)

\* The outcomes of process_txs: the iterator starts at storage.tx_queue.iter().
process_txs_outcomes(req_txs) == map_txs(req_txs, 0)

RECURSIVE results_of_decodable(_, _)
results_of_decodable(req_txs, os) ==
    IF req_txs = <<>> THEN <<>>
    ELSE (IF Head(req_txs).decodes THEN <<Head(os).result>> ELSE <<>>)
         \o results_of_decodable(Tail(req_txs), Tail(os))

\* Mutant of process_txs: txs that do not deserialize get no result (filter_map).
process_txs_skip_undecodable(req_txs) ==
    results_of_decodable(req_txs, map_txs(req_txs, 0))

process_txs(req_txs) ==
    LET os == process_txs_outcomes(req_txs) IN [i \in 1..Len(os) |-> os[i].result]

(* --------------------------- process_proposal -------------------------- *)

\* Mutant of proposal_status: only ExtraTxs rejects (code > 4).
proposal_status_above_4(results) ==
    IF \E i \in 1..Len(results) : results[i].code > 4 THEN "Reject" ELSE "Accept"

proposal_status(results) ==
    IF \E i \in 1..Len(results) : results[i].code > 3 THEN "Reject" ELSE "Accept"

process_proposal(req_txs) ==
    LET results == process_txs(req_txs)
    IN [status |-> proposal_status(results), tx_results |-> results]

(* ------------------------------ actions -------------------------------- *)

NoCall == [called |-> FALSE, txs |-> <<>>, tx_results |-> <<>>, status |-> "None", iter |-> 0]

NoHook == "None"

Called == status # "None"

\* tx_queue_iter when the last call returned.
last_iter == IF steps = <<>> THEN 0 ELSE steps[Len(steps)].iter

InitCall ==
    /\ txs = <<>>
    /\ tx_results = <<>>
    /\ status = "None"
    /\ steps = <<>>
    /\ prev = NoCall
    /\ hook = NoHook

\* TestShell::new(): empty queue, one funded implicit account.
Init ==
    /\ tx_queue = <<>>
    /\ balances = [k \in Tokens \X Addresses |->
                      IF k = <<NativeToken, AddressFrom("key1")>> THEN MaxAmount ELSE 0]
    /\ wrapper_tx_fees = MaxAmount
    /\ mainnet = FALSE
    /\ InitCall

\* A shell whose genesis sets any fee parameter, under either build.
InitFee ==
    /\ tx_queue = <<>>
    /\ balances = [k \in Tokens \X Addresses |-> 0]
    /\ wrapper_tx_fees \in Amounts
    /\ mainnet \in BOOLEAN
    /\ InitCall

\* shell.enqueue_tx(wrapper, inner_tx): a wrapper of the previous block is
\* queued for decryption; its inner tx is the next fresh one.
EnqueueTx ==
    /\ ~Called
    /\ Len(tx_queue) < MaxQueue
    /\ tx_queue' = Append(tx_queue, TxInQueue(Len(tx_queue) + 1))
    /\ UNCHANGED <<balances, wrapper_tx_fees, mainnet, txs, tx_results, status,
                   steps, prev, hook>>

\* shell.storage.write(&balance_key, amount).
WriteBalance(token, owner, amount) ==
    /\ ~Called
    /\ balances' = [balances EXCEPT ![<<token, owner>>] = amount]
    /\ UNCHANGED <<tx_queue, wrapper_tx_fees, mainnet, txs, tx_results, status,
                   steps, prev, hook>>

\* Mutant of ProcessProposal: the entries the call consumed are removed from
\* the stored queue.
ProcessProposal_drains_queue(req_txs) ==
    LET resp == process_proposal(req_txs)
        os == process_txs_outcomes(req_txs)
        used == IF os = <<>> THEN 0 ELSE os[Len(os)].iter
    IN
    /\ txs' = req_txs
    /\ tx_results' = resp.tx_results
    /\ status' = resp.status
    /\ steps' = [i \in 1..Len(os) |-> [iter |-> os[i].iter, matched |-> os[i].matched]]
    /\ prev' = [called |-> Called, txs |-> txs, tx_results |-> tx_results,
                status |-> status, iter |-> last_iter]
    /\ hook' = NoHook
    /\ tx_queue' = SubSeq(tx_queue, used + 1, Len(tx_queue))
    /\ UNCHANGED <<balances, wrapper_tx_fees, mainnet>>

ProcessProposal(req_txs) ==
    LET resp == process_proposal(req_txs)
        os == process_txs_outcomes(req_txs)
    IN
    /\ txs' = req_txs
    /\ tx_results' = resp.tx_results
    /\ status' = resp.status
    /\ steps' = [i \in 1..Len(os) |-> [iter |-> os[i].iter, matched |-> os[i].matched]]
    /\ prev' = [called |-> Called, txs |-> txs, tx_results |-> tx_results,
                status |-> status, iter |-> last_iter]
    /\ hook' = NoHook
    /\ UNCHANGED storage

\* The response leaves the shell: the cycle of this proposal is over.
Respond ==
    /\ Called
    /\ txs' = <<>>
    /\ tx_results' = <<>>
    /\ status' = "None"
    /\ steps' = <<>>
    /\ prev' = NoCall
    /\ hook' = NoHook
    /\ UNCHANGED storage

VerifyHeader ==
    /\ ~Called
    /\ hook' = "VerifyHeader::default"
    /\ UNCHANGED <<storage, txs, tx_results, status, steps, prev>>

\* Mutant of RevertProposal: the queue is dropped with the proposal.
RevertProposal_drops_queue ==
    /\ Called
    /\ txs' = <<>>
    /\ tx_results' = <<>>
    /\ status' = "None"
    /\ steps' = <<>>
    /\ prev' = NoCall
    /\ hook' = "RevertProposal::default"
    /\ tx_queue' = <<>>
    /\ UNCHANGED <<balances, wrapper_tx_fees, mainnet>>

\* The proposal is dropped by consensus: its cycle is over.
RevertProposal ==
    /\ Called
    /\ txs' = <<>>
    /\ tx_results' = <<>>
    /\ status' = "None"
    /\ steps' = <<>>
    /\ prev' = NoCall
    /\ hook' = "RevertProposal::default"
    /\ UNCHANGED storage

(* --------------------------- specifications ---------------------------- *)

\* One proposal per cycle, of up to MaxTxs txs, against every queue.
Next ==
    \/ EnqueueTx
    \/ ~Called /\ \E req_txs \in Proposals : ProcessProposal(req_txs)
    \/ Respond
    \/ VerifyHeader
    \/ RevertProposal

Spec == Init /\ [][Next]_vars

\* process_proposal called again and again on the same committed state.
NextCalls ==
    \/ EnqueueTx
    \/ \E req_txs \in ShortProposals : ProcessProposal(req_txs)

SpecCalls == Init /\ [][NextCalls]_vars

\* Single-tx proposals of every shape, against every balance and fee.
NextFee ==
    \/ \E k \in Tokens \X Addresses, a \in Amounts : WriteBalance(k[1], k[2], a)
    \/ ~Called /\ \E req_txs \in SingleProposals : ProcessProposal(req_txs)
    \/ Respond

SpecFee == InitFee /\ [][NextFee]_vars

\* One proposal per cycle of txs that fail the decode or header check, mixed
\* with decrypted txs that pass it, against every queue.
NextHeader ==
    \/ EnqueueTx
    \/ ~Called /\ \E req_txs \in HeaderProposals : ProcessProposal(req_txs)
    \/ Respond

SpecHeader == Init /\ [][NextHeader]_vars

(* ---------------------- reading the last call -------------------------- *)

TxIdx == 1..Len(txs)

\* tx_queue_iter when process_single_tx was entered for the i-th tx.
iter_before(i) == IF i = 1 THEN 0 ELSE steps[i - 1].iter

\* The tx decodes, passes validate_header and is matched as TxType::Decrypted.
ReachesDecrypted(tx) == tx.decodes /\ tx.header_ok /\ tx.header = "Decrypted"

\* The tx decodes, passes validate_header and validate_ciphertext as a wrapper.
ReachesFeeCheck(tx) ==
    tx.decodes /\ tx.header_ok /\ tx.header = "Wrapper" /\ tx.cipher_ok

\* How many of the first i txs reached the TxType::Decrypted arm.
DecryptedUpTo(i) == Cardinality({j \in 1..i : ReachesDecrypted(txs[j])})

QueueHashes == [k \in 1..Len(tx_queue) |-> header_hash(tx_queue[k].inner_tx)]

\* The info strings each class of tx can get.
InfosOf(tx) ==
    IF ~tx.decodes THEN {into(InfoNotDeserializable)}
    ELSE IF ~tx.header_ok THEN {to_string(validate_header_err(tx))}
    ELSE IF tx.header = "Raw" THEN {into(InfoRaw)}
    ELSE IF tx.header = "Protocol" THEN {into(InfoProtocol)}
    ELSE IF tx.header = "Wrapper"
    THEN {InfoBadCiphertext(hash_tx(tx)), into(InfoWrapperOk), into(InfoInsufficient)}
    ELSE {into(InfoInvalidOrder), into(InfoDecryptedOk), into(InfoMismarked),
          into(InfoExtraTxs)}

(* ------------------------------ claims --------------------------------- *)

\* C1: process_proposal answers Reject if and only if some per-tx result has
\* code 4 (InvalidOrder) or 5 (ExtraTxs); a proposal whose results all have
\* codes 0..3 is answered Accept.
C1_RejectIffOrderOrExtra ==
    Called =>
        /\ (status = "Reject") <=>
               (\E i \in 1..Len(tx_results) :
                    tx_results[i].code \in {InvalidOrder, ExtraTxs})
        /\ (\A i \in 1..Len(tx_results) : tx_results[i].code \in 0..3)
               => status = "Accept"

C1_Witness ==
    /\ status = "Accept"
    /\ \E i \in 1..Len(tx_results) : tx_results[i].code = InvalidTx
    /\ \E i \in 1..Len(tx_results) : tx_results[i].code = InvalidSig

\* C2: process_txs returns one result per input tx, and the i-th result is
\* the classification of the i-th tx (with the iterator the earlier txs
\* left), whatever classes of tx the list mixes.
C2_OneResultPerTxInOrder ==
    Called =>
        /\ Len(tx_results) = Len(txs)
        /\ \A i \in TxIdx :
            /\ tx_results[i].info \in InfosOf(txs[i])
            /\ tx_results[i] = process_single_tx(txs[i], iter_before(i)).result

C2_Witness ==
    /\ Called
    /\ Len(txs) = MaxTxs
    /\ \E i \in TxIdx : ~txs[i].decodes
    /\ \E i \in TxIdx : txs[i].decodes /\ ~txs[i].header_ok
    /\ \E i \in TxIdx : ReachesDecrypted(txs[i])
    /\ Len(tx_results) = MaxTxs

\* C3: a tx that reaches the Decrypted arm while the queue has an unconsumed
\* entry whose inner header hash differs from the tx's hash commitment gets
\* InvalidOrder, and the iterator has advanced by exactly one entry: the next
\* tx to reach the Decrypted arm is given the following entry.
C3_MismatchIsInvalidOrderAndConsumes ==
    Called =>
        \A i \in TxIdx :
            (/\ ReachesDecrypted(txs[i])
             /\ iter_before(i) < Len(tx_queue)
             /\ hash_commitment(txs[i]) # QueueHashes[iter_before(i) + 1])
            => /\ tx_results[i] = TxResult(InvalidOrder, into(InfoInvalidOrder))
               /\ steps[i].iter = iter_before(i) + 1
               /\ \A j \in TxIdx :
                      (/\ j > i
                       /\ ReachesDecrypted(txs[j])
                       /\ DecryptedUpTo(j) = DecryptedUpTo(i) + 1)
                      => steps[j].matched =
                             IF iter_before(i) + 2 <= Len(tx_queue)
                             THEN iter_before(i) + 2 ELSE 0

C3_Witness ==
    /\ Called
    /\ \E i \in TxIdx, j \in TxIdx :
        /\ i < j
        /\ ReachesDecrypted(txs[i])
        /\ tx_results[i].code = InvalidOrder
        /\ ReachesDecrypted(txs[j])
        /\ steps[j].matched = steps[i].matched + 1
        /\ tx_results[j].code = Ok

\* C4: within one proposal, every tx that reaches the Decrypted arm after
\* the iterator has passed the last queue entry gets ExtraTxs, and once one
\* tx got ExtraTxs every later tx reaching the Decrypted arm gets it too.
C4_ExhaustedStaysExtraTxs ==
    Called =>
        /\ \A i \in TxIdx :
               (ReachesDecrypted(txs[i]) /\ iter_before(i) >= Len(tx_queue))
               => tx_results[i] = TxResult(ExtraTxs, into(InfoExtraTxs))
        /\ \A i \in TxIdx, j \in TxIdx :
               (/\ i < j
                /\ tx_results[i].code = ExtraTxs
                /\ ReachesDecrypted(txs[j]))
               => tx_results[j].code = ExtraTxs

C4_Witness ==
    /\ Called
    /\ Len(tx_queue) >= 1
    /\ \E i \in TxIdx, j \in TxIdx :
        /\ i < j
        /\ tx_results[i].code = ExtraTxs
        /\ tx_results[j].code = ExtraTxs
        /\ iter_before(i) = Len(tx_queue)

\* The scenario of C5: the queue holds A, B, C (inner txs 1, 2, 3).
QueueABC == tx_queue = <<TxInQueue(1), TxInQueue(2), TxInQueue(3)>>

DecryptedOf(h) == DecryptedTx(TRUE, "Decrypted", h)

\* The call before the last one was the proposal [decrypted A], answered Ok.
PrevWasOnlyA ==
    /\ prev.called
    /\ prev.txs = <<DecryptedOf(1)>>
    /\ prev.tx_results = <<TxResult(Ok, into(InfoDecryptedOk))>>
    /\ prev.iter = 1

\* C5 (as stated): with the queue holding A, B, C, after the proposal
\* [decrypted A] was answered Ok the cursor points at B, so that the first
\* decrypted tx of the next call ([decrypted C]) is matched against B.
C5_CursorCarriesOverCalls ==
    (QueueABC /\ PrevWasOnlyA /\ txs = <<DecryptedOf(3)>>)
    => /\ tx_results[1].code = InvalidOrder
       /\ steps[1].matched = 2

\* C5 (amended): with the queue holding A, B, C, the proposal [decrypted A]
\* is answered Ok and leaves that call's iterator at B; every call starts a
\* fresh iterator at the head of the stored queue, so a following proposal
\* [decrypted C] is matched against A and answered InvalidOrder.
C5_EachCallStartsAtHead ==
    (QueueABC /\ Called) =>
        /\ txs = <<DecryptedOf(1)>>
               => /\ tx_results = <<TxResult(Ok, into(InfoDecryptedOk))>>
                  /\ steps[1].matched = 1
                  /\ last_iter = 1
        /\ (PrevWasOnlyA /\ txs = <<DecryptedOf(3)>>)
               => /\ tx_results = <<TxResult(InvalidOrder, into(InfoInvalidOrder))>>
                  /\ steps[1].matched = 1
                  /\ status = "Reject"

C5_Witness ==
    /\ QueueABC
    /\ PrevWasOnlyA
    /\ txs = <<DecryptedOf(3)>>
    /\ tx_results[1].code = InvalidOrder
    /\ steps[1].matched = 1

\* C6: the k-th tx of a proposal to reach the Decrypted arm is compared with
\* the k-th queue entry, or gets ExtraTxs when the queue has fewer than k
\* entries, however many other txs are interleaved before it.
C6_KthDecryptedMeetsKthEntry ==
    Called =>
        \A i \in TxIdx :
            ReachesDecrypted(txs[i]) =>
                LET k == DecryptedUpTo(i) IN
                IF k <= Len(tx_queue)
                THEN /\ steps[i].matched = k
                     /\ (tx_results[i].code = InvalidOrder)
                            <=> (hash_commitment(txs[i]) # QueueHashes[k])
                     /\ tx_results[i].code # ExtraTxs
                ELSE /\ steps[i].matched = 0
                     /\ tx_results[i].code = ExtraTxs

C6_Witness ==
    /\ Called
    /\ Len(txs) = 3
    /\ ReachesDecrypted(txs[1])
    /\ txs[2].header = "Wrapper" /\ tx_results[2].code = Ok
    /\ ReachesDecrypted(txs[3])
    /\ steps[3].matched = 2
    /\ tx_results[3].code = Ok

\* C7: the iterator never moves back and moves only for a tx that reaches
\* the Decrypted arm, by at most one entry per such tx; an undecodable,
\* header-failing, Raw, Protocol or Wrapper tx leaves it where it was, and no
\* queue entry is given to two txs of one proposal.
C7_CursorMovesOnlyOnDecrypted ==
    Called =>
        /\ \A i \in TxIdx :
            /\ steps[i].iter >= iter_before(i)
            /\ steps[i].iter <= iter_before(i) + 1
            /\ ~ReachesDecrypted(txs[i])
                   => (steps[i].iter = iter_before(i) /\ steps[i].matched = 0)
        /\ \A i \in TxIdx, j \in TxIdx :
               (i < j /\ steps[i].matched # 0) => steps[j].matched # steps[i].matched

C7_Witness ==
    /\ Called
    /\ Len(txs) = 3
    /\ ReachesDecrypted(txs[1]) /\ steps[1].matched = 1
    /\ ~ReachesDecrypted(txs[2]) /\ steps[2].iter = 1
    /\ ReachesDecrypted(txs[3]) /\ steps[3].matched = 2

\* The hash commitments of the Decrypted-variant txs of the last call.
IsDecryptedVariant(tx) == tx.decodes /\ tx.header = "Decrypted"

DecryptedCommitments ==
    LET ds == SelectSeq(txs, IsDecryptedVariant)
    IN [k \in 1..Len(ds) |-> hash_commitment(ds[k])]

\* C8: process_proposal answers Accept only if the hash commitments of the
\* proposal's Decrypted-variant txs are, in order and in full, the inner
\* header hashes of the queue entries: no reordering, omission or insertion.
C8_AcceptOnlyIfQueueReplayed ==
    status = "Accept" => DecryptedCommitments = QueueHashes

\* The balance the fee check of a wrapper reads.
PayerBalance(tx) ==
    balances[<<tx.fee_token,
               IF tx.pk = masp_tx_key THEN masp ELSE AddressFrom(tx.pk)>>]

NoValidPow(tx) == mainnet \/ ~tx.pow

\* C9: a wrapper that decodes, passes the header check, has a valid
\* ciphertext and no valid proof-of-work gets InvalidTx (insufficient
\* balance) when the payer's balance in the fee's token is strictly less
\* than the required fee, and Ok when it is greater than or equal to it.
C9_FeeCheckAgainstRequiredFee ==
    Called =>
        \A i \in TxIdx :
            (ReachesFeeCheck(txs[i]) /\ NoValidPow(txs[i])) =>
                /\ PayerBalance(txs[i]) < wrapper_tx_fees
                       => tx_results[i] = TxResult(InvalidTx, into(InfoInsufficient))
                /\ PayerBalance(txs[i]) >= wrapper_tx_fees
                       => tx_results[i] = TxResult(Ok, into(InfoWrapperOk))

C9_Witness ==
    /\ Called
    /\ wrapper_tx_fees >= 1
    /\ \E i \in TxIdx :
        /\ ReachesFeeCheck(txs[i]) /\ NoValidPow(txs[i])
        /\ PayerBalance(txs[i]) = wrapper_tx_fees
        /\ tx_results[i].code = Ok

\* C10 (as stated): a wrapper (valid header and ciphertext, no valid
\* proof-of-work) whose payer's balance is less than the fee amount declared
\* in the wrapper gets InvalidTx with the insufficient-balance message.
C10_RejectedBelowDeclaredFee ==
    Called =>
        \A i \in TxIdx :
            (/\ ReachesFeeCheck(txs[i]) /\ NoValidPow(txs[i])
             /\ PayerBalance(txs[i]) < txs[i].fee_amount)
            => tx_results[i] = TxResult(InvalidTx, into(InfoInsufficient))

\* C10 (amended): such a wrapper, with a balance below its declared fee, gets
\* InvalidTx with the insufficient-balance message exactly when the balance
\* is below the required fee of get_wrapper_tx_fees; the declared amount is
\* not consulted, so it is Ok when the required fee is covered.
C10_DeclaredFeeNotConsulted ==
    Called =>
        \A i \in TxIdx :
            (/\ ReachesFeeCheck(txs[i]) /\ NoValidPow(txs[i])
             /\ PayerBalance(txs[i]) < txs[i].fee_amount)
            => /\ (tx_results[i] = TxResult(InvalidTx, into(InfoInsufficient)))
                      <=> (PayerBalance(txs[i]) < wrapper_tx_fees)
               /\ (tx_results[i] = TxResult(Ok, into(InfoWrapperOk)))
                      <=> (PayerBalance(txs[i]) >= wrapper_tx_fees)

C10_Witness ==
    /\ Called
    /\ \E i \in TxIdx :
        /\ ReachesFeeCheck(txs[i]) /\ NoValidPow(txs[i])
        /\ PayerBalance(txs[i]) < txs[i].fee_amount
        /\ PayerBalance(txs[i]) < wrapper_tx_fees
        /\ wrapper_tx_fees = txs[i].fee_amount
        /\ tx_results[i] = TxResult(InvalidTx, into(InfoInsufficient))
\* The tx decodes, passes validate_header and is matched as TxType::Raw.
ReachesRaw(tx) == tx.decodes /\ tx.header_ok /\ tx.header = "Raw"

\* C11: every tx matched as TxType::Raw gets InvalidTx (non-encrypted txs are
\* not supported), whatever the queue holds and wherever the iterator is, and
\* a proposal of raw txs alone is not rejected.
C11_RawIsInvalidTx ==
    Called =>
        /\ \A i \in TxIdx :
               ReachesRaw(txs[i]) =>
                   /\ tx_results[i] = TxResult(InvalidTx, into(InfoRaw))
                   /\ steps[i].iter = iter_before(i)
        /\ (\A i \in TxIdx : ReachesRaw(txs[i])) => status = "Accept"

C11_Witness ==
    /\ Called
    /\ Len(tx_queue) >= 1
    /\ Len(txs) >= 2
    /\ ReachesRaw(txs[2]) /\ tx_results[2].code = InvalidTx
    /\ ReachesDecrypted(txs[1]) /\ steps[2].iter = 1
    /\ status = "Accept"
\* C12: process_proposal run twice on the same txs against the same
\* committed state (queue, balances, fee parameter) gives the same results
\* and the same verdict: nothing is carried from one call to the next.
C12_SameInputSameOutput ==
    (Called /\ prev.called /\ prev.txs = txs)
    => /\ tx_results = prev.tx_results
       /\ status = prev.status
       /\ last_iter = prev.iter

C12_Witness ==
    /\ Called /\ prev.called
    /\ Len(tx_queue) >= 1
    /\ prev.txs = txs
    /\ txs = <<DecryptedOf(1)>>
    /\ prev.tx_results = <<TxResult(Ok, into(InfoDecryptedOk))>>
    /\ tx_results = <<TxResult(Ok, into(InfoDecryptedOk))>>
\* C13: a tx that reaches the Decrypted arm with a hash commitment equal to
\* the inner header hash of the entry it is given gets Ok exactly when
\* verify_decrypted_correctly agrees with its tag, and InvalidTx (which does
\* not reject the block) when it does not.
C13_MatchingHashFollowsOracle ==
    Called =>
        \A i \in TxIdx :
            (/\ ReachesDecrypted(txs[i])
             /\ steps[i].matched # 0
             /\ hash_commitment(txs[i]) = QueueHashes[steps[i].matched])
            => LET inner == tx_queue[steps[i].matched].inner_tx IN
               /\ verify_decrypted_correctly(txs[i], inner)
                      => tx_results[i] = TxResult(Ok, into(InfoDecryptedOk))
               /\ ~verify_decrypted_correctly(txs[i], inner)
                      => tx_results[i] = TxResult(InvalidTx, into(InfoMismarked))

C13_Witness ==
    /\ Called
    /\ Len(txs) = 1
    /\ ReachesDecrypted(txs[1])
    /\ txs[1].tag = "Undecryptable"
    /\ steps[1].matched = 1
    /\ hash_commitment(txs[1]) = QueueHashes[1]
    /\ ~Undecryptable(tx_queue[1].inner_tx)
    /\ tx_results[1] = TxResult(InvalidTx, into(InfoMismarked))
    /\ status = "Accept"
FailsDecode(tx) == ~tx.decodes

FailsHeader(tx) == tx.decodes /\ ~validate_header(tx)

\* C14: bytes that do not decode give InvalidTx, a decoded tx whose
\* validate_header fails gives InvalidSig, each as the tx's own entry of the
\* response, and a proposal made only of such txs is accepted.
C14_DecodeAndHeaderFailuresRecovered ==
    Called =>
        /\ Len(tx_results) = Len(txs)
        /\ \A i \in TxIdx :
               /\ FailsDecode(txs[i])
                      => tx_results[i] = TxResult(InvalidTx, into(InfoNotDeserializable))
               /\ FailsHeader(txs[i]) => tx_results[i].code = InvalidSig
               /\ (FailsHeader(txs[i]) /\ txs[i].header = "Wrapper")
                      => tx_results[i].info = into(InfoWrapperSigError)
        /\ (\A i \in TxIdx : FailsDecode(txs[i]) \/ FailsHeader(txs[i]))
               => status = "Accept"

C14_Witness ==
    /\ Called
    /\ Len(txs) = 2
    /\ FailsDecode(txs[1])
    /\ FailsHeader(txs[2])
    /\ txs[2].header = "Wrapper"
    /\ tx_results[1].code = InvalidTx
    /\ tx_results[2] = TxResult(InvalidSig, into(InfoWrapperSigError))
    /\ status = "Accept"
OtherToken(token) == CHOOSE t \in Tokens : t # token

\* C15: for a wrapper that reaches the fee check without a valid
\* proof-of-work, the balance compared with the required fee is the one held
\* in the wrapper's fee token by the masp address when the wrapper's pk is
\* masp_tx_key, and by the address derived from pk otherwise.
C15_PayerIsMaspForSentinelKey ==
    Called =>
        \A i \in TxIdx :
            (ReachesFeeCheck(txs[i]) /\ NoValidPow(txs[i])) =>
                /\ txs[i].pk = masp_tx_key
                       => ((tx_results[i].code = Ok)
                             <=> (balances[<<txs[i].fee_token, masp>>]
                                    >= wrapper_tx_fees))
                /\ txs[i].pk # masp_tx_key
                       => ((tx_results[i].code = Ok)
                             <=> (balances[<<txs[i].fee_token,
                                             AddressFrom(txs[i].pk)>>]
                                    >= wrapper_tx_fees))

C15_Witness ==
    /\ Called
    /\ Len(txs) = 1
    /\ ReachesFeeCheck(txs[1]) /\ NoValidPow(txs[1])
    /\ txs[1].pk = masp_tx_key
    /\ wrapper_tx_fees >= 1
    /\ balances[<<txs[1].fee_token, masp>>] >= wrapper_tx_fees
    /\ balances[<<txs[1].fee_token, AddressFrom(masp_tx_key)>>] = 0
    /\ balances[<<OtherToken(txs[1].fee_token), masp>>] = 0
    /\ tx_results[1] = TxResult(Ok, into(InfoWrapperOk))
IsWrapper(tx) == tx.decodes /\ tx.header = "Wrapper"

\* C16: off mainnet, a wrapper with a valid header, a valid ciphertext and a
\* valid proof-of-work solution gets Ok whatever its payer's balance is, and
\* a wrapper with a failing header or an invalid ciphertext does not get Ok
\* even with a valid solution.
C16_PowBypassesFeeOnly ==
    Called =>
        \A i \in TxIdx :
            (IsWrapper(txs[i]) /\ has_valid_pow_solution(txs[i]) /\ ~mainnet) =>
                /\ ReachesFeeCheck(txs[i])
                       => tx_results[i] = TxResult(Ok, into(InfoWrapperOk))
                /\ ~validate_header(txs[i]) => tx_results[i].code = InvalidSig
                /\ (validate_header(txs[i]) /\ ~validate_ciphertext(txs[i]))
                       => tx_results[i] = TxResult(InvalidTx, InfoBadCiphertext(hash_tx(txs[i])))

C16_Witness ==
    /\ Called
    /\ ~mainnet
    /\ Len(txs) = 1
    /\ ReachesFeeCheck(txs[1])
    /\ has_valid_pow_solution(txs[1])
    /\ wrapper_tx_fees >= 1
    /\ PayerBalance(txs[1]) = 0
    /\ tx_results[1] = TxResult(Ok, into(InfoWrapperOk))
HookStep == hook' # hook /\ hook' # NoHook

\* C17: a step of verify_header or revert_proposal answers with the default
\* response, in whatever state it is taken, and leaves the queue, the
\* balances, the required fee and the build's feature as they were.
C17_HooksLeaveStateAlone ==
    [][HookStep =>
          /\ storage' = storage
          /\ hook' \in {"VerifyHeader::default", "RevertProposal::default"}
          /\ ~Called => hook' = "VerifyHeader::default"
          /\ Called => hook' = "RevertProposal::default"]_vars

C17_Witness ==
    /\ hook = "RevertProposal::default"
    /\ Len(tx_queue) = MaxQueue
    /\ ~Called
ReachesCiphertextCheck(tx) ==
    tx.decodes /\ tx.header_ok /\ tx.header = "Wrapper"

\* C18: a wrapper that reaches the Wrapper arm with a ciphertext that
\* validate_ciphertext reports invalid gets InvalidTx with the
\* invalid-ciphertext message, whatever its payer's balance, the required fee,
\* its proof-of-work solution and the build's feature are.
C18_BadCiphertextDecidedFirst ==
    Called =>
        \A i \in TxIdx :
            (ReachesCiphertextCheck(txs[i]) /\ ~validate_ciphertext(txs[i]))
            => tx_results[i] = TxResult(InvalidTx, InfoBadCiphertext(hash_tx(txs[i])))

C18_Witness ==
    /\ Called
    /\ ~mainnet
    /\ Len(txs) = 1
    /\ ReachesCiphertextCheck(txs[1])
    /\ ~validate_ciphertext(txs[1])
    /\ has_valid_pow_solution(txs[1])
    /\ wrapper_tx_fees >= 1
    /\ PayerBalance(txs[1]) >= wrapper_tx_fees
    /\ tx_results[1] = TxResult(InvalidTx, InfoBadCiphertext(hash_tx(txs[1])))
ProducedCodes == {Ok, InvalidTx, InvalidSig, InvalidOrder, ExtraTxs}

\* C19: every result of process_single_tx carries one of the codes 0, 1, 2,
\* 4, 5, never 3 (WasmRuntimeError), and the codes 4 and 5 are given only to
\* txs that reached the Decrypted arm.
C19_CodesProduced ==
    Called =>
        \A i \in TxIdx :
            /\ tx_results[i].code \in ProducedCodes
            /\ tx_results[i].code # WasmRuntimeError
            /\ tx_results[i].code \in {InvalidOrder, ExtraTxs}
                   => ReachesDecrypted(txs[i])

C19_Witness ==
    /\ Called
    /\ Len(tx_queue) = 1
    /\ Len(txs) = 3
    /\ tx_results[1].code = InvalidOrder
    /\ tx_results[2].code = ExtraTxs
    /\ tx_results[3].code = InvalidSig
    /\ ReachesDecrypted(txs[1])
    /\ ReachesDecrypted(txs[2])
    /\ txs[3].header = "Wrapper"
FailsEarly(tx) == FailsDecode(tx) \/ FailsHeader(tx)

\* The entry the iterator would hand out next after the first i - 1 txs
\* (0 when the queue is exhausted).
EntryDue(i) == IF iter_before(i) < Len(tx_queue) THEN iter_before(i) + 1 ELSE 0

\* C20: a tx of any variant whose validate_header fails gets InvalidSig; a tx
\* that fails the decode or the header check leaves the queue iterator where
\* it was and is matched with no entry, so a tx reaching the Decrypted arm
\* right after it is matched with the entry that was due before it.
C20_EarlyChecksPrecedeVariantRules ==
    Called =>
        \A i \in TxIdx :
            /\ FailsHeader(txs[i]) => tx_results[i].code = InvalidSig
            /\ FailsEarly(txs[i])
                   => /\ steps[i].iter = iter_before(i)
                      /\ steps[i].matched = 0
                      /\ (i < Len(txs) /\ ReachesDecrypted(txs[i + 1]))
                             => steps[i + 1].matched = EntryDue(i)

C20_Witness ==
    /\ Called
    /\ Len(tx_queue) >= 1
    /\ txs = <<DecryptedTx(FALSE, "Decrypted", 1), DecryptedTx(TRUE, "Decrypted", 1)>>
    /\ tx_results[1].code = InvalidSig
    /\ steps[1].matched = 0
    /\ steps[2].matched = 1
    /\ tx_results[2] = TxResult(Ok, into(InfoDecryptedOk))
\* The step is a call of process_proposal: only a call leaves a response.
CallStep == status' # "None"

\* C21: a call of process_proposal, accepted or rejected and whatever calls
\* came before it, leaves the stored queue with the same entries in the same
\* order and every balance as it was; only the call's own iterator moves,
\* and it starts at the head of the stored queue, so the first tx of the call
\* to reach the Decrypted arm is given the first stored entry.
C21_CallsLeaveStorageAlone ==
    [][CallStep =>
          /\ tx_queue' = tx_queue
          /\ balances' = balances
          /\ \A i \in 1..Len(txs') :
                 (/\ ReachesDecrypted(txs'[i])
                  /\ \A j \in 1..(i - 1) : ~ReachesDecrypted(txs'[j]))
                 => steps'[i].matched = IF Len(tx_queue) >= 1 THEN 1 ELSE 0]_vars

C21_Witness ==
    /\ QueueABC
    /\ prev.called
    /\ prev.iter = 1
    /\ prev.status = "Reject"
    /\ status = "Accept"
    /\ txs = <<DecryptedOf(1)>>
    /\ steps[1].matched = 1
    /\ last_iter = 1
    /\ balances[<<NativeToken, AddressFrom("key1")>>] = MaxAmount
DecryptedIdx == {i \in TxIdx : ReachesDecrypted(txs[i])}

\* The proposal is the decrypted forms of all the queue entries, in queue
\* order and correctly tagged, with nothing but wrappers in between.
HappyPath ==
    /\ \A i \in TxIdx : IsWrapper(txs[i]) \/ ReachesDecrypted(txs[i])
    /\ Cardinality(DecryptedIdx) = Len(tx_queue)
    /\ \A i \in DecryptedIdx :
           LET k == DecryptedUpTo(i) IN
           /\ hash_commitment(txs[i]) = QueueHashes[k]
           /\ verify_decrypted_correctly(txs[i], tx_queue[k].inner_tx)

\* C22: on the happy path every tx that reaches the Decrypted arm gets Ok,
\* the call's iterator ends past the last queue entry and the proposal is
\* accepted, whatever the interleaved wrappers get.
C22_HappyPathAccepted ==
    (Called /\ HappyPath) =>
        /\ \A i \in DecryptedIdx : tx_results[i] = TxResult(Ok, into(InfoDecryptedOk))
        /\ last_iter = Len(tx_queue)
        /\ ~iter_next(last_iter).some
        /\ status = "Accept"

C22_Witness ==
    /\ Called
    /\ HappyPath
    /\ Len(tx_queue) = 2
    /\ Len(txs) = 3
    /\ txs[1] = DecryptedOf(1)
    /\ IsWrapper(txs[2])
    /\ txs[3] = DecryptedTx(TRUE, "Undecryptable", 2)
    /\ tx_results[1].code = Ok
    /\ tx_results[3].code = Ok
    /\ last_iter = 2
    /\ status = "Accept"

====
